---- MODULE Spec2Model ----
(***************************************************************************)
(* Model of the caption extractor voice/get_context.py: the log reader,    *)
(* the three extraction strategies, the deduplicator and the exporter,     *)
(* driven by get_content_json.                                             *)
(*                                                                         *)
(* JSON values are tagged records:                                         *)
(*   JNull, JNum(n), JStr(s), JArr(l), JObj(kv)                            *)
(* where kv is the object's sequence of <<key, value>> pairs in document   *)
(* order (Python dicts keep insertion order) and s is a TEXT.              *)
(*                                                                         *)
(* A text is a sequence of tokens:                                         *)
(*   Fence     the three backticks                                         *)
(*   JsonTag   the word json                                               *)
(*   Ws        one space                                                   *)
(*   Ch(c)     any other piece of plain text without braces or backticks   *)
(*   Doc(v)    the JSON text of the object v: "{ ... }"                    *)
(*   Lit(v)    the JSON text of the non-object value v (no braces)         *)
(*   Bad       a brace-delimited text that is not JSON: "{oops}"           *)
(*   Repr(v)   Python's str() of the list or dict v                        *)
(* json.loads is the inverse of Doc/Lit; the regular expressions of the    *)
(* source are evaluated on the tokens, looking inside a Doc's strings      *)
(* where the serialised text would show a fence.                           *)
(***************************************************************************)
EXTENDS Integers, Sequences, FiniteSets, TLC

VARIABLES argv, log, pc, lineno, entries, stdout, cursor, all_items, seen, deduped, written

\* context/client.py, DeepseekClient._post: its argument and locals, the
\* answers of the server to the POSTs made, and the waits slept.
VARIABLES max_retries, attempt, backoff, post_pc, answers, slept

\* context/generator.py, CopyGenerator.generate: its argument n, its locals,
\* and what the client gave the batch call.
VARIABLES gen_n, gen_pc, gen_results, gen_i, batch

\* context/video_tool.py, main: args.number, the results generated, and the
\* entries appended to the log file.
VARIABLES number, tool_pc, generated, appended

extractor == <<argv, log, pc, lineno, entries, stdout, cursor, all_items, seen, deduped, written>>

postvars == <<max_retries, attempt, backoff, post_pc, answers, slept>>

genvars == <<gen_n, gen_pc, gen_results, gen_i, batch>>

toolvars == <<number, tool_pc, generated, appended>>

\* What the extractor leaves alone.
clientside == <<postvars, genvars, toolvars>>

vars == <<extractor, postvars, genvars, toolvars>>

----------------------------------------------------------------------------
(* JSON values and tokens *)

JNull == [t |-> "null"]

JNum(n) == [t |-> "num", n |-> n]

JStr(s) == [t |-> "str", s |-> s]

JArr(l) == [t |-> "arr", l |-> l]

JObj(kv) == [t |-> "obj", kv |-> kv]

Fence == [k |-> "fence"]

JsonTag == [k |-> "json"]

Ws == [k |-> "ws"]

Ch(c) == [k |-> "ch", c |-> c]

Doc(v) == [k |-> "doc", v |-> v]

Lit(v) == [k |-> "lit", v |-> v]

Bad == [k |-> "bad"]

Repr(v) == [k |-> "repr", v |-> v]

EmptyStr == JStr(<<>>)

IsStr(v) == v.t = "str"

IsList(v) == v.t = "arr"

IsDict(v) == v.t = "obj"

\* Python truthiness of a decoded JSON value.
Truthy(v) ==
    CASE v.t = "null" -> FALSE
      [] v.t = "num" -> v.n # 0
      [] v.t = "str" -> v.s # <<>>
      [] v.t = "arr" -> v.l # <<>>
      [] v.t = "obj" -> v.kv # <<>>

\* a or b
PyOr(a, b) == IF Truthy(a) THEN a ELSE b

\* key in d
Has(d, key) == \E n \in 1..Len(d.kv) : d.kv[n][1] = key

\* d.get(key, default)
GetD(d, key, default) ==
    IF Has(d, key)
    THEN d.kv[CHOOSE n \in 1..Len(d.kv) : d.kv[n][1] = key][2]
    ELSE default

\* d.get(key)
Get(d, key) == GetD(d, key, JNull)

\* Whether Python can hash the value (a list or a dict cannot be a set member).
Hashable(v) == v.t \notin {"arr", "obj"}

----------------------------------------------------------------------------
(* Texts and the regular expressions *)

IsBrace(tok) == tok.k \in {"doc", "bad"}

\* The first position from p on that holds no whitespace (Len(s)+1 if none): \s*
SkipWs(s, p) ==
    CHOOSE q \in p..(Len(s) + 1) :
        /\ \A r \in p..(q - 1) : s[r].k = "ws"
        /\ q = Len(s) + 1 \/ s[q].k # "ws"

\* A closing brace at the end of token q followed by \s* and a fence.
CloserAt(s, q) ==
    /\ IsBrace(s[q])
    /\ LET r == SkipWs(s, q + 1) IN r <= Len(s) /\ s[r].k = "fence"

RECURSIVE InnerCloseFence(_)
\* Whether the JSON text of v shows a closing brace followed by \s* and a
\* fence: only inside one of its strings.
InnerCloseFence(v) ==
    CASE v.t = "str" ->
            \E q \in 1..Len(v.s) :
                \/ CloserAt(v.s, q)
                \/ v.s[q].k = "doc" /\ InnerCloseFence(v.s[q].v)
      [] v.t = "arr" -> \E n \in 1..Len(v.l) : InnerCloseFence(v.l[n])
      [] v.t = "obj" -> \E n \in 1..Len(v.kv) : InnerCloseFence(v.kv[n][2])
      [] OTHER -> FALSE

\* Where the group of CODE_FENCE_RE would open when the match starts at the
\* fence at position i: after (?:json)? and \s*.
GroupStart(s, i) ==
    SkipWs(s, IF i + 1 <= Len(s) /\ s[i + 1].k = "json" THEN i + 2 ELSE i + 1)

\* The fence at i is followed by (?:json)?\s*\{
IsStart(s, i) ==
    /\ s[i].k = "fence"
    /\ LET p == GroupStart(s, i) IN p <= Len(s) /\ IsBrace(s[p])

\* CODE_FENCE_RE.search(s) followed by json.loads(m.group(1)):
\*   [found |-> a match exists, ok |-> the group parses, v |-> the document].
\* The lazy group ends at the first closing brace that \s* and a fence follow;
\* a group cut inside the document, or running over several tokens, is not
\* JSON.
FenceSearch(s) ==
    LET starts == {i \in 1..Len(s) : IsStart(s, i)}
        none == [found |-> FALSE, ok |-> FALSE, v |-> JNull]
    IN  IF starts = {} THEN none
        ELSE LET i == CHOOSE x \in starts : \A y \in starts : x <= y
                 p == GroupStart(s, i)
                 cut == s[p].k = "doc" /\ InnerCloseFence(s[p].v)
                 later == \E q \in (p + 1)..Len(s) :
                             \/ CloserAt(s, q)
                             \/ s[q].k = "doc" /\ InnerCloseFence(s[q].v)
             IN  IF cut THEN [found |-> TRUE, ok |-> FALSE, v |-> JNull]
                 ELSE IF CloserAt(s, p)
                      THEN IF s[p].k = "doc"
                           THEN [found |-> TRUE, ok |-> TRUE, v |-> s[p].v]
                           ELSE [found |-> TRUE, ok |-> FALSE, v |-> JNull]
                      ELSE IF later
                           THEN [found |-> TRUE, ok |-> FALSE, v |-> JNull]
                           ELSE none

\* extract_fenced_json(text): the document, or JNull for None.
extract_fenced_json(text) ==
    IF text = <<>> THEN JNull
    ELSE LET m == FenceSearch(text) IN IF m.found /\ m.ok THEN m.v ELSE JNull

RECURSIVE FenceSub(_, _)
RECURSIVE SubValue(_)
\* re.sub(r"```(?:json)?\s*|\s*```", "", s) from position p on. The first
\* alternative is tried first at each position; a fence that whitespace
\* precedes is taken by the second one, which leaves a json tag in place.
FenceSub(s, p) ==
    IF p > Len(s) THEN <<>>
    ELSE IF s[p].k = "fence"
         THEN FenceSub(s, GroupStart(s, p))
         ELSE LET q == SkipWs(s, p) IN
              IF q <= Len(s) /\ s[q].k = "fence"
              THEN FenceSub(s, q + 1)
              ELSE <<IF s[p].k \in {"doc", "lit", "repr"}
                     THEN [s[p] EXCEPT !.v = SubValue(s[p].v)]
                     ELSE s[p]>>
                   \o FenceSub(s, p + 1)

\* The substitution as it acts inside the JSON text of v: on its strings.
SubValue(v) ==
    CASE v.t = "str" -> JStr(FenceSub(v.s, 1))
      [] v.t = "arr" -> JArr([n \in 1..Len(v.l) |-> SubValue(v.l[n])])
      [] v.t = "obj" ->
            JObj([n \in 1..Len(v.kv) |-> <<v.kv[n][1], SubValue(v.kv[n][2])>>])
      [] OTHER -> v

\* str.strip()
Strip(s) ==
    LET nonws == {n \in 1..Len(s) : s[n].k # "ws"}
    IN  IF nonws = {} THEN <<>>
        ELSE LET a == CHOOSE x \in nonws : \A y \in nonws : x <= y
                 b == CHOOSE x \in nonws : \A y \in nonws : x >= y
             IN  SubSeq(s, a, b)

\* strip_code_fence(text)
strip_code_fence(text) == Strip(FenceSub(text, 1))

\* json.loads(text): a text that is exactly one JSON document (whitespace
\* around it allowed) decodes to its value; anything else raises.
JsonLoads(text) ==
    LET s == Strip(text)
    IN  IF Len(s) = 1 /\ s[1].k \in {"doc", "lit"}
        THEN [ok |-> TRUE, v |-> s[1].v]
        ELSE [ok |-> FALSE, v |-> JNull]

\* json.dumps(v) as a text.
JsonDumps(v) == IF IsDict(v) THEN <<Doc(v)>> ELSE <<Lit(v)>>

\* str(v): a string is itself, a number its digits, None its name, a list
\* or a dict its repr.
PyStr(v) ==
    CASE v.t = "str" -> v.s
      [] v.t = "num" -> <<Ch(ToString(v.n))>>
      [] v.t = "null" -> <<Ch("None")>>
      [] OTHER -> <<Repr(v)>>

----------------------------------------------------------------------------
(* The extractor *)

RECURSIVE Flatten(_)
\* The concatenation of a sequence of sequences.
Flatten(ss) == IF ss = <<>> THEN <<>> ELSE Head(ss) \o Flatten(Tail(ss))

\* What a for loop over v visits: the items of a list, the keys of a dict,
\* the characters of a string; anything else is not iterable.
Iterable(v) == v.t \in {"arr", "obj", "str"}

IterItems(v) ==
    CASE v.t = "arr" -> v.l
      [] v.t = "obj" -> [n \in 1..Len(v.kv) |-> JStr(<<Ch(v.kv[n][1])>>)]
      [] v.t = "str" -> [n \in 1..Len(v.s) |-> JStr(<<v.s[n]>>)]
      [] OTHER -> <<>>

Raise == [raised |-> TRUE, out |-> <<>>]

Return(out) == [raised |-> FALSE, out |-> out]

\* Line 78: the record of one item of inner["captions"], fields by dict.get
\* with defaults.
InnerItemRecord(c) ==
    [time |-> GetD(c, "time", EmptyStr),
     content |-> GetD(c, "content", GetD(c, "caption", EmptyStr)),
     title |-> GetD(c, "title", EmptyStr)]

\* Lines 77-79: one record per item; an item that is no dict has no get and
\* raises AttributeError.
UnpackItems(items) ==
    IF \E n \in 1..Len(items) : ~IsDict(items[n])
    THEN Raise
    ELSE Return([n \in 1..Len(items) |-> InnerItemRecord(items[n])])

\* Line 77: the loop over inner["captions"], whatever that value is.
UnpackCaptions(caps) == IF Iterable(caps) THEN UnpackItems(IterItems(caps)) ELSE Raise

\* PlainBlock without the call of strip_code_fence.
PlainBlock_Unstripped(time, text, title) ==
    Return(<<[time |-> time, content |-> JStr(text), title |-> title]>>)

\* Lines 81, 85, 89: the single record of a block taken as plain text.
PlainBlock(time, text, title) ==
    Return(<<[time |-> time, content |-> JStr(strip_code_fence(text)), title |-> title]>>)

\* Lines 76-82, with inner the result of extract_fenced_json(caption).
CaptionRecords(caption, inner, time, title) ==
    IF Truthy(inner) /\ IsDict(inner) /\ Has(inner, "captions")
    THEN UnpackCaptions(Get(inner, "captions"))
    ELSE PlainBlock(time, caption, title)

\* Lines 72-90, with time and title as lines 69-70 set them.
BlockRecords(block, time, title) ==
    IF Has(block, "caption") /\ IsStr(Get(block, "caption"))
    THEN CaptionRecords(Strip(Get(block, "caption").s),
                        extract_fenced_json(Strip(Get(block, "caption").s)), time, title)
    ELSE IF Has(block, "content") /\ IsStr(Get(block, "content"))
         THEN PlainBlock(time, Get(block, "content").s, title)
         ELSE PlainBlock(time, JsonDumps(block), title)

\* extract_blocks_from_script_caption(block):
\*   [raised |-> an exception escapes, out |-> the list returned]
\* A block that is no dict has no get and raises AttributeError.
extract_blocks_from_script_caption(block) ==
    IF ~IsDict(block) THEN Raise
    ELSE BlockRecords(block,
                      PyOr(PyOr(Get(block, "time"), Get(block, "time_range")), EmptyStr),
                      PyOr(Get(block, "title"), EmptyStr))

\* Line 105: the records of one block, with the entry's timestamp.
Stamp(ts, out) ==
    [m \in 1..Len(out) |->
        [timestamp |-> ts, time |-> out[m].time, content |-> out[m].content,
         title |-> out[m].title]]

\* Lines 102-106, with per the results of extract_blocks_from_script_caption.
CollectBlocks(ts, per) ==
    IF \E n \in 1..Len(per) : per[n].raised
    THEN Raise
    ELSE Return(Flatten([n \in 1..Len(per) |-> Stamp(ts, per[n].out)]))

\* Lines 102-106: the records of the blocks of data["script/caption"].
StrategyA(ts, sc) ==
    CollectBlocks(ts, [n \in 1..Len(sc.l) |-> extract_blocks_from_script_caption(sc.l[n])])

\* Lines 122-125 and 140-143: the record of one item of an embedded array.
ItemRecord(ts, item) ==
    [timestamp |-> ts,
     time |-> PyOr(Get(item, "time"), EmptyStr),
     content |-> JStr(strip_code_fence(PyStr(
                    PyOr(PyOr(Get(item, "caption"), Get(item, "content")), EmptyStr)))),
     title |-> PyOr(Get(item, "title"), EmptyStr)]

\* Lines 117 and 137: inner.get("script/caption") or inner.get("captions")
EmbeddedArray(inner) == PyOr(Get(inner, "script/caption"), Get(inner, "captions"))

\* Lines 120-125: the items that are dicts give a record each.
DictItemRecords(ts, dicts) == [n \in 1..Len(dicts) |-> ItemRecord(ts, dicts[n])]

\* ResultText with the continue of line 126 one level out: a string with a
\* document but no array adds nothing.
ResultText_NoFallback(ts, text, inner) ==
    IF Truthy(inner)
    THEN IF IsList(EmbeddedArray(inner))
         THEN DictItemRecords(ts, SelectSeq(EmbeddedArray(inner).l, IsDict))
         ELSE <<>>
    ELSE <<[timestamp |-> ts, time |-> EmptyStr,
            content |-> JStr(strip_code_fence(text)), title |-> EmptyStr]>>

\* Lines 115-129, with inner the result of extract_fenced_json(text).
ResultText(ts, text, inner) ==
    IF Truthy(inner) /\ IsList(EmbeddedArray(inner))
    THEN DictItemRecords(ts, SelectSeq(EmbeddedArray(inner).l, IsDict))
    ELSE <<[timestamp |-> ts, time |-> EmptyStr,
            content |-> JStr(strip_code_fence(text)), title |-> EmptyStr]>>

\* Lines 112-129: what one element r of results adds to found.
ResultRecords(ts, r) ==
    IF IsStr(r) THEN ResultText(ts, r.s, extract_fenced_json(r.s)) ELSE <<>>

\* Lines 111-130.
StrategyB(ts, results) ==
    Return(Flatten([n \in 1..Len(results.l) |-> ResultRecords(ts, results.l[n])]))

\* Lines 139-143: every item gives a record; an item that is no dict has no
\* get and raises AttributeError.
AllItemRecords(ts, sc) ==
    IF \E n \in 1..Len(sc) : ~IsDict(sc[n])
    THEN Raise
    ELSE Return([n \in 1..Len(sc) |-> ItemRecord(ts, sc[n])])

\* Lines 136-143, with inner the result of extract_fenced_json(v).
FieldText(ts, inner) ==
    IF Truthy(inner) /\ IsDict(inner) /\ IsList(EmbeddedArray(inner))
    THEN AllItemRecords(ts, EmbeddedArray(inner).l)
    ELSE Return(<<>>)

\* Lines 134-143: what one field value v of the entry adds to found.
FieldRecords(ts, v) ==
    IF IsStr(v) THEN FieldText(ts, extract_fenced_json(v.s)) ELSE Return(<<>>)

\* Lines 133-144, with per the results of the fields in order.
CollectFields(per) ==
    IF \E n \in 1..Len(per) : per[n].raised
    THEN Raise
    ELSE Return(Flatten([n \in 1..Len(per) |-> per[n].out]))

\* Lines 133-144.
StrategyC(ts, entry) ==
    CollectFields([n \in 1..Len(entry.kv) |-> FieldRecords(ts, entry.kv[n][2])])

\* Lines 98-101: the entry takes the first branch.
ShapeA(entry) ==
    /\ Truthy(Get(entry, "data"))
    /\ IsDict(Get(entry, "data"))
    /\ IsList(Get(Get(entry, "data"), "script/caption"))

\* Lines 109-110: the entry takes the second branch.
ShapeB(entry) == IsList(Get(entry, "results"))

\* Dispatch with the results branch tried before the data branch.
Dispatch_ResultsFirst(entry, ts) ==
    IF ShapeB(entry)
    THEN StrategyB(ts, Get(entry, "results"))
    ELSE IF ShapeA(entry)
         THEN StrategyA(ts, Get(Get(entry, "data"), "script/caption"))
         ELSE StrategyC(ts, entry)

\* Lines 97-144, with ts as line 95 sets it.
Dispatch(entry, ts) ==
    IF ShapeA(entry)
    THEN StrategyA(ts, Get(Get(entry, "data"), "script/caption"))
    ELSE IF ShapeB(entry)
         THEN StrategyB(ts, Get(entry, "results"))
         ELSE StrategyC(ts, entry)

\* extract_from_entry(entry):
\*   [raised |-> an exception escapes, out |-> the list returned]
\* An entry that is no dict has no get and raises AttributeError.
extract_from_entry(entry) ==
    IF IsDict(entry) THEN Dispatch(entry, Get(entry, "timestamp")) ELSE Raise

\* DedupeKey without the time.
DedupeKey_NoTime(it) == <<it.timestamp, it.content>>

\* Line 151: the deduplication key of a record.
DedupeKey(it) == <<it.timestamp, it.time, it.content>>

\* LoadLine that skips a fenced block that is not JSON without a warning.
LoadLine_SilentFailure(line) ==
    IF Strip(line) = <<>> THEN [entries |-> <<>>, warnings |-> <<>>]
    ELSE IF JsonLoads(Strip(line)).ok
         THEN [entries |-> <<JsonLoads(Strip(line)).v>>, warnings |-> <<>>]
         ELSE IF FenceSearch(Strip(line)).found
              THEN IF FenceSearch(Strip(line)).ok
                   THEN [entries |-> <<FenceSearch(Strip(line)).v>>, warnings |-> <<>>]
                   ELSE [entries |-> <<>>, warnings |-> <<>>]
              ELSE [entries |-> <<>>, warnings |-> <<"invalid JSON line">>]

\* Lines 29-45: what one physical line adds:
\*   [entries |-> zero or one entry, warnings |-> zero or one message]
LoadLine(line) ==
    LET s == Strip(line)
        j == JsonLoads(s)
        m == FenceSearch(s)
    IN  IF s = <<>> THEN [entries |-> <<>>, warnings |-> <<>>]
        ELSE IF j.ok THEN [entries |-> <<j.v>>, warnings |-> <<>>]
        ELSE IF m.found
             THEN IF m.ok THEN [entries |-> <<m.v>>, warnings |-> <<>>]
                  ELSE [entries |-> <<>>, warnings |-> <<"failed to parse JSON">>]
             ELSE [entries |-> <<>>, warnings |-> <<"invalid JSON line">>]

RECURSIVE load_log_lines(_)
\* load_log_lines(path) on the lines of the file: the entries returned.
load_log_lines(lines) ==
    IF lines = <<>> THEN <<>>
    ELSE LoadLine(Head(lines)).entries \o load_log_lines(Tail(lines))

RECURSIVE DedupeFrom(_, _)
DedupeFrom(items, keys) ==
    IF items = <<>> THEN <<>>
    ELSE IF DedupeKey(Head(items)) \in keys
         THEN DedupeFrom(Tail(items), keys)
         ELSE <<Head(items)>> \o DedupeFrom(Tail(items), keys \cup {DedupeKey(Head(items))})

\* dedupe_and_flatten(items), for items whose keys can be hashed.
dedupe_and_flatten(items) == DedupeFrom(items, {})

\* Line 151-152: building the key tuple and looking it up hashes its parts.
KeyHashable(it) == Hashable(it.timestamp) /\ Hashable(it.time) /\ Hashable(it.content)

----------------------------------------------------------------------------
(* Bounds and inputs *)

\* Longest log, in physical lines.
MaxLines == 3

\* Most caption blocks in a script/caption array.
MaxBlocks == 2

\* Most elements in a results array.
MaxResults == 2

\* Most items in the array of an embedded document.
MaxItems == 2

SeqsUpTo(S, n) == UNION {[1..k -> S] : k \in 0..n}

\* A field left out of an object.
Absent == [t |-> "absent"]

IsPresent(pair) == pair[2] # Absent

\* The object with the given fields, in order, those marked Absent left out.
Obj(pairs) == JObj(SelectSeq(pairs, IsPresent))

S(c) == JStr(<<Ch(c)>>)

\* ```json <mid> ```
Fenced(mid) == <<Fence, JsonTag, Ws>> \o mid \o <<Ws, Fence>>

FencedDoc(v) == Fenced(<<Doc(v)>>)

ItemFull == Obj(<< <<"time", S("0-5s")>>, <<"title", S("Intro")>>, <<"content", S("Hi")>> >>)

ItemBare == Obj(<< <<"content", S("Hi")>> >>)

ItemBoth == Obj(<< <<"caption", S("Cap")>>, <<"content", S("Con")>> >>)

ItemFenced == Obj(<< <<"time", S("0-5s")>>, <<"content", JStr(<<Fence, Ch("x")>>)>> >>)

ItemNoText == Obj(<< <<"time", S("5-9s")>> >>)

Items == {ItemFull, ItemBare, ItemBoth, ItemFenced, ItemNoText, JNum(3)}

ItemLists == SeqsUpTo(Items, MaxItems)

Captions(l) == Obj(<< <<"captions", JArr(l)>> >>)

ScriptCaption(l) == Obj(<< <<"script/caption", JArr(l)>> >>)

TwoLevel == ScriptCaption(<<Obj(<< <<"caption", JStr(FencedDoc(Captions(<<>>)))>> >>)>>)

Block(time, title, caption, content) ==
    Obj(<< <<"time", time>>, <<"title", title>>, <<"caption", caption>>, <<"content", content>> >>)

Blocks ==
    { Block(S("0-10s"), S("T1"), S("Hello"), Absent),
      Block(S("10-20s"), Absent, Absent, S("World")),
      Block(S("0-10s"), Absent, JStr(Fenced(<<Ch("Hello")>>)), Absent),
      Block(S("20-30s"), S("T1"), JStr(FencedDoc(Captions(<<ItemFull, ItemBare>>))), Absent),
      Block(S("20-30s"), S("T1"), Absent, JStr(FencedDoc(Captions(<<ItemFull>>)))),
      Block(S("0-10s"), Absent, JStr(FencedDoc(Obj(<< <<"note", JNum(1)>> >>))), Absent),
      Block(S("0-10s"), Absent, JStr(Fenced(<<Bad>>)), Absent),
      Block(Absent, S("T1"), EmptyStr, Absent),
      Block(S("0-10s"), Absent, JNum(2), S("World")),
      Block(S("0-10s"), S("T1"), JStr(FencedDoc(TwoLevel)), Absent),
      Block(S("0-10s"), Absent, JStr(FencedDoc(Obj(<< <<"captions", JNum(4)>> >>))), Absent),
      Block(S("0-10s"), Absent, JStr(FencedDoc(Obj(<< <<"captions", JObj(<<>>)>> >>))), Absent),
      Block(JArr(<<JNum(1)>>), Absent, S("Hello"), Absent),
      Obj(<< <<"time_range", S("30s")>>, <<"note", S("n")>> >>),
      JNum(5) }

ResultStrings ==
    { S("Hello"),
      JStr(Fenced(<<Ch("Hello")>>)),
      JStr(<<Ch("a"), Ws, Fence, JsonTag, Ws, Ch("b")>>),
      JStr(FencedDoc(Captions(<<ItemFull, ItemBare>>))),
      JStr(<<Ch("intro"), Ws, Fence, Doc(ScriptCaption(<<ItemFull>>)), Fence, Ws, Ch("trailing")>>),
      JStr(Fenced(<<Bad>>)),
      JStr(FencedDoc(JObj(<<>>))),
      JStr(FencedDoc(Obj(<< <<"note", JNum(1)>> >>))),
      JStr(FencedDoc(Obj(<< <<"script/caption", JArr(<<>>)>>, <<"captions", JArr(<<ItemBare>>)>> >>))),
      JStr(FencedDoc(ScriptCaption(<<>>))),
      JStr(<<Fence, JsonTag, Ws, Doc(Captions(<<ItemFull>>))>>),
      JStr(FencedDoc(TwoLevel)),
      JStr(<<Fence, Doc(Captions(<<ItemFull>>)), Ws, Ch("and"), Ws, Doc(Captions(<<ItemBare>>)), Fence>>),
      JNum(9) }

Timestamps == {Absent, S("2024-01-01T00:00:00")}

Entry(ts, data, results, brief) ==
    Obj(<< <<"timestamp", ts>>, <<"data", data>>, <<"results", results>>, <<"brief", brief>> >>)

\* Entries of the current schema: a script/caption array of blocks, with or
\* without a results array beside it.
BlockEntries ==
    { Entry(ts, ScriptCaption(bs), rs, Absent) :
        ts \in Timestamps, bs \in SeqsUpTo(Blocks, MaxBlocks),
        rs \in {Absent, JArr(<<S("Hello")>>)} }

\* A single block whose caption, or content, embeds a captions array.
EmbeddedEntries ==
    { Entry(S("2024-01-01T00:00:00"),
            ScriptCaption(<<Block(S("0-10s"), S("T1"),
                                  IF inCaption THEN JStr(FencedDoc(Captions(l))) ELSE Absent,
                                  IF inCaption THEN Absent ELSE JStr(FencedDoc(Captions(l))))>>),
            Absent, Absent) :
        l \in ItemLists, inCaption \in BOOLEAN }

\* Entries of the legacy schema: a results array.
ResultEntries ==
    { Entry(ts, Absent, JArr(rs), Absent) :
        ts \in Timestamps, rs \in SeqsUpTo(ResultStrings, MaxResults) }
    \cup
    { Entry(Absent, Absent, JArr(<<JStr(FencedDoc(d))>>), Absent) :
        d \in {Captions(l) : l \in ItemLists} \cup {ScriptCaption(l) : l \in ItemLists} }

\* Entries that mix the shapes, and those of no known shape.
MixedEntries ==
    { Entry(ts, data, results, brief) :
        ts \in Timestamps,
        data \in {Absent, JObj(<<>>), JNum(1), ScriptCaption(<<>>),
                  Obj(<< <<"script/caption", S("none")>> >>),
                  ScriptCaption(<<Block(S("0-10s"), S("T1"), S("Hello"), Absent)>>)},
        results \in {Absent, S("none"), JArr(<<>>), JArr(<<JNum(9)>>), JArr(<<S("Hello")>>),
                     JArr(<<JStr(FencedDoc(Captions(<<ItemFull>>)))>>)},
        brief \in {Absent, S("Hello"), JStr(FencedDoc(Captions(<<ItemFull, ItemBoth>>))),
                   JStr(FencedDoc(ScriptCaption(<<JNum(3)>>)))} }
    \cup
    { Obj(<< <<"raw", JStr(FencedDoc(Captions(<<ItemBare>>)))>>,
            <<"timestamp", S("2024-01-01T00:00:00")>>,
            <<"brief", JStr(FencedDoc(ScriptCaption(<<ItemFull>>)))>> >>),
      Obj(<< <<"timestamp", JArr(<<JNum(1)>>)>>, <<"results", JArr(<<S("Hello")>>)>> >>),
      JArr(<<JNum(1)>>), JNum(7), JNull, S("text") }

Entries == BlockEntries \cup EmbeddedEntries \cup ResultEntries \cup MixedEntries

\* The log line that is the JSON text of v.
LineOf(v) == JsonDumps(v)

EntryHello ==
    Entry(S("2024-01-01T00:00:00"),
          ScriptCaption(<<Block(S("0-10s"), S("T1"), S("Hello"), Absent),
                          Block(S("10-20s"), Absent, Absent, S("World"))>>),
          Absent, Absent)

EntryAgain ==
    Entry(S("2024-01-01T00:00:00"),
          ScriptCaption(<<Block(S("10-20s"), S("T2"), S("World"), Absent),
                          Block(S("20-30s"), S("T1"), JStr(FencedDoc(Captions(<<ItemFull, ItemBare>>))), Absent)>>),
          Absent, Absent)

EntryLegacy ==
    Entry(S("2024-01-01T00:00:00"), Absent,
          JArr(<<S("Hello"), JStr(FencedDoc(Captions(<<ItemFull>>)))>>), Absent)

\* The physical lines a log is made of: blank, not JSON, a fenced block that
\* is not JSON, an entry inside a fence with text around it, entries of both
\* schemas, and JSON that the extractor does not expect.
LogLines ==
    { <<Ws>>,
      <<Ch("oops")>>,
      <<Ch("note"), Ws, Fence, Bad, Fence>>,
      <<Ch("note"), Ws, Fence, JsonTag, Ws, Doc(EntryHello), Ws, Fence, Ws, Ch("trailing")>>,
      LineOf(EntryHello),
      LineOf(EntryAgain),
      LineOf(EntryLegacy),
      LineOf(JArr(<<JNum(1)>>)),
      LineOf(Entry(Absent, ScriptCaption(<<JNum(5)>>), Absent, Absent)),
      LineOf(Entry(Absent, ScriptCaption(<<Block(JArr(<<JNum(1)>>), Absent, S("Hello"), Absent)>>),
                   Absent, Absent)) }

Logs == SeqsUpTo(LogLines, MaxLines)

\* Lines for the reader alone: blank, not JSON, a fenced block that is not
\* JSON, a fenced entry with text around it, entries as plain JSON, a fenced
\* block that is not JSON followed by a fenced entry, and a fenced entry one
\* of whose strings itself holds a fenced document.
ReaderLines ==
    { <<Ws>>,
      <<Ch("oops")>>,
      <<Ch("note"), Ws, Fence, Bad, Fence>>,
      <<Ch("note"), Ws, Fence, JsonTag, Ws, Doc(EntryHello), Ws, Fence, Ws, Ch("trailing")>>,
      LineOf(EntryHello),
      LineOf(EntryLegacy),
      <<Fence, Bad, Fence, Ws, Ch("and"), Ws, Fence, Doc(EntryLegacy), Fence>>,
      <<Ch("note"), Ws, Fence, JsonTag, Ws, Doc(EntryAgain), Ws, Fence>> }

\* The command lines: --log names a missing file; no --out; --out with
\* --format json or csv.
Argvs ==
    { [exists |-> FALSE, out |-> FALSE, format |-> "json"],
      [exists |-> TRUE, out |-> FALSE, format |-> "json"],
      [exists |-> TRUE, out |-> TRUE, format |-> "json"],
      [exists |-> TRUE, out |-> TRUE, format |-> "csv"] }

----------------------------------------------------------------------------
(* get_content_json and the script's last line *)

\* No call of _post, of generate or of main is under way.
PostIdle ==
    /\ max_retries = 0
    /\ attempt = 0
    /\ backoff = 0
    /\ post_pc = "idle"
    /\ answers = <<>>
    /\ slept = <<>>

GenIdle ==
    /\ gen_n = 0
    /\ gen_pc = "idle"
    /\ gen_results = <<>>
    /\ gen_i = 0
    /\ batch = [t |-> "none"]

ToolIdle ==
    /\ number = 0
    /\ tool_pc = "idle"
    /\ generated = <<>>
    /\ appended = <<>>

\* The extractor is not run.
ExtractorIdle ==
    /\ argv = [exists |-> FALSE, out |-> FALSE, format |-> "json"]
    /\ log = <<>>
    /\ pc = "idle"
    /\ lineno = 1
    /\ entries = <<>>
    /\ stdout = <<>>
    /\ cursor = 1
    /\ all_items = <<>>
    /\ seen = {}
    /\ deduped = <<>>
    /\ written = [format |-> "none", items |-> <<>>]

Fresh ==
    /\ PostIdle
    /\ GenIdle
    /\ ToolIdle
    /\ pc = "start"
    /\ lineno = 1
    /\ entries = <<>>
    /\ stdout = <<>>
    /\ cursor = 1
    /\ all_items = <<>>
    /\ seen = {}
    /\ deduped = <<>>
    /\ written = [format |-> "none", items |-> <<>>]

\* Any command line, any log of up to MaxLines lines.
Init ==
    /\ argv \in Argvs
    /\ log \in IF argv.exists THEN Logs ELSE {<<>>}
    /\ Fresh

\* The extractor run as synthesize.py runs it, on a log of one entry.
InitEntry ==
    /\ argv = [exists |-> TRUE, out |-> FALSE, format |-> "json"]
    /\ log \in {<<LineOf(e)>> : e \in Entries}
    /\ Fresh

\* The extractor printing to standard output, on a log of reader lines.
InitLoad ==
    /\ argv = [exists |-> TRUE, out |-> FALSE, format |-> "json"]
    /\ log \in SeqsUpTo(ReaderLines, MaxLines)
    /\ Fresh

\* Lines 178-180: a missing log file ends the run with SystemExit.
Start ==
    /\ pc = "start"
    /\ pc' = IF argv.exists THEN "load" ELSE "exit"
    /\ UNCHANGED <<argv, log, lineno, entries, stdout, cursor, all_items, seen, deduped, written, clientside>>

\* Lines 28-45: one turn of the loop of load_log_lines.
ReadLine ==
    /\ pc = "load"
    /\ lineno <= Len(log)
    /\ LET r == LoadLine(log[lineno])
       IN  /\ entries' = entries \o r.entries
           /\ stdout' = stdout \o [n \in 1..Len(r.warnings) |->
                                     [kind |-> "warning", line |-> lineno, msg |-> r.warnings[n]]]
    /\ lineno' = lineno + 1
    /\ UNCHANGED <<argv, log, pc, cursor, all_items, seen, deduped, written, clientside>>

\* Lines 46 and 182: load_log_lines returns.
LoadReturn ==
    /\ pc = "load"
    /\ lineno > Len(log)
    /\ pc' = "extract"
    /\ cursor' = 1
    /\ UNCHANGED <<argv, log, lineno, entries, stdout, all_items, seen, deduped, written, clientside>>

\* Lines 186-187, with r what extract_from_entry gave.
ExtendItems(r) ==
    IF r.raised
    THEN pc' = "extract_raised" /\ UNCHANGED <<cursor, all_items>>
    ELSE /\ all_items' = all_items \o r.out
         /\ cursor' = cursor + 1
         /\ pc' = pc

\* Lines 185-187: one turn of the loop over the entries; an exception of
\* extract_from_entry is caught nowhere and ends the run.
ExtractEntry ==
    /\ pc = "extract"
    /\ cursor <= Len(entries)
    /\ ExtendItems(extract_from_entry(entries[cursor]))
    /\ UNCHANGED <<argv, log, lineno, entries, stdout, seen, deduped, written, clientside>>

\* Line 189: dedupe_and_flatten is called.
ExtractDone ==
    /\ pc = "extract"
    /\ cursor > Len(entries)
    /\ pc' = "dedupe"
    /\ cursor' = 1
    /\ UNCHANGED <<argv, log, lineno, entries, stdout, all_items, seen, deduped, written, clientside>>

\* Lines 150-155: one turn of the loop of dedupe_and_flatten; a key that
\* cannot be hashed raises TypeError.
DedupeItem ==
    /\ pc = "dedupe"
    /\ cursor <= Len(all_items)
    /\ LET it == all_items[cursor]
       IN  IF ~KeyHashable(it)
           THEN pc' = "dedupe_raised" /\ UNCHANGED <<cursor, seen, deduped>>
           ELSE /\ pc' = pc
                /\ cursor' = cursor + 1
                /\ IF DedupeKey(it) \in seen
                   THEN UNCHANGED <<seen, deduped>>
                   ELSE /\ seen' = seen \cup {DedupeKey(it)}
                        /\ deduped' = Append(deduped, it)
    /\ UNCHANGED <<argv, log, lineno, entries, stdout, all_items, written, clientside>>

\* Lines 156 and 189: dedupe_and_flatten returns.
DedupeReturn ==
    /\ pc = "dedupe"
    /\ cursor > Len(all_items)
    /\ pc' = "export"
    /\ UNCHANGED <<argv, log, lineno, entries, stdout, cursor, all_items, seen, deduped, written, clientside>>

\* Lines 191-201: the records go to the --out file, with a note on standard
\* output, or as JSON to standard output.
Export ==
    /\ pc = "export"
    /\ IF argv.out
       THEN /\ written' = [format |-> argv.format, items |-> deduped]
            /\ stdout' = Append(stdout, [kind |-> "wrote", count |-> Len(deduped)])
       ELSE /\ stdout' = Append(stdout, [kind |-> "json", items |-> deduped])
            /\ UNCHANGED written
    /\ pc' = "return"
    /\ UNCHANGED <<argv, log, lineno, entries, cursor, all_items, seen, deduped, clientside>>

\* Line 203: the script prints what get_content_json returned.
PrintReturn ==
    /\ pc = "return"
    /\ stdout' = Append(stdout, [kind |-> "repr", items |-> deduped])
    /\ pc' = "done"
    /\ UNCHANGED <<argv, log, lineno, entries, cursor, all_items, seen, deduped, written, clientside>>

Next ==
    \/ Start
    \/ ReadLine
    \/ LoadReturn
    \/ ExtractEntry
    \/ ExtractDone
    \/ DedupeItem
    \/ DedupeReturn
    \/ Export
    \/ PrintReturn

Spec == Init /\ [][Next]_vars

SpecEntry == InitEntry /\ [][Next]_vars

SpecLoad == InitLoad /\ [][Next]_vars

----------------------------------------------------------------------------
(* context/client.py: DeepseekClient._post *)

\* Largest max_retries passed to _post (its default is 3).
MaxRetries == 4

\* What a POST can come to: a response that raise_for_status accepts and
\* whose body is JSON; status 429; another status that raise_for_status
\* rejects; no response at all (session.post raises); an accepted response
\* whose body is not JSON (resp.json() raises).
Answers == {"ok", "rate_limited", "http_error", "no_connection", "bad_body"}

\* The answers that raise a requests.RequestException inside the try block.
Failing == {"http_error", "no_connection"}

\* backoff with a constant wait.
NextBackoff_Constant(b) == b

\* Lines 49 and 60: backoff *= 2
NextBackoff(b) == b * 2

\* Lines 48-49 and 59-60: time.sleep(backoff), then the wait grows.
Sleep ==
    /\ slept' = Append(slept, backoff)
    /\ backoff' = NextBackoff(backoff)

\* Lines 34-37: _post is called; attempt holds the number the loop gives the
\* next attempt.
InitPost ==
    /\ ExtractorIdle
    /\ GenIdle
    /\ ToolIdle
    /\ max_retries \in 0..MaxRetries
    /\ attempt = 1
    /\ backoff = 1
    /\ post_pc = "loop"
    /\ answers = <<>>
    /\ slept = <<>>

\* Lines 39-53: the attempt is answered well and its JSON is returned.
PostReturns ==
    /\ post_pc = "loop"
    /\ attempt <= max_retries
    /\ answers' = Append(answers, "ok")
    /\ post_pc' = "returned"
    /\ UNCHANGED <<max_retries, attempt, backoff, slept, extractor, genvars, toolvars>>

\* Lines 46-50: status 429: sleep, double the wait, next attempt.
PostRateLimited ==
    /\ post_pc = "loop"
    /\ attempt <= max_retries
    /\ answers' = Append(answers, "rate_limited")
    /\ Sleep
    /\ attempt' = attempt + 1
    /\ UNCHANGED <<max_retries, post_pc, extractor, genvars, toolvars>>

\* Lines 55-60: a RequestException is caught; the last attempt raises it
\* again, an earlier one sleeps and doubles the wait.
Caught(answer) ==
    /\ answers' = Append(answers, answer)
    /\ IF attempt = max_retries
       THEN post_pc' = "raised_request" /\ UNCHANGED <<attempt, backoff, slept>>
       ELSE Sleep /\ attempt' = attempt + 1 /\ UNCHANGED post_pc
    /\ UNCHANGED <<max_retries, extractor, genvars, toolvars>>

\* Lines 39, 52, 55-60: session.post or raise_for_status raises.
PostFails ==
    /\ post_pc = "loop"
    /\ attempt <= max_retries
    /\ \E answer \in Failing : Caught(answer)

\* Line 53: resp.json() raises. The exception is a RequestException in
\* requests from 2.27 on and is caught; in older releases it is a plain
\* ValueError, which the except clause lets through.
PostBadBody ==
    /\ post_pc = "loop"
    /\ attempt <= max_retries
    /\ \/ Caught("bad_body")
       \/ /\ answers' = Append(answers, "bad_body")
          /\ post_pc' = "raised_value"
          /\ UNCHANGED <<max_retries, attempt, backoff, slept, extractor, genvars, toolvars>>

\* Line 62: the loop ran out of attempts.
PostExhausted ==
    /\ post_pc = "loop"
    /\ attempt > max_retries
    /\ post_pc' = "raised_runtime"
    /\ UNCHANGED <<max_retries, attempt, backoff, answers, slept, extractor, genvars, toolvars>>

NextPost ==
    \/ PostReturns
    \/ PostRateLimited
    \/ PostFails
    \/ PostBadBody
    \/ PostExhausted

\* The call runs on until it returns or raises.
SpecPost == InitPost /\ [][NextPost]_vars /\ WF_vars(NextPost)

----------------------------------------------------------------------------
(* context/generator.py: CopyGenerator.generate *)

\* Largest number of variants asked of generate.
MaxN == 2

\* What client.generate raised instead of returning.
Raises == [t |-> "raise"]

\* Texts the client gives, with and without whitespace around them.
Texts == {<<Ch("copy")>>, <<Ws, Ch("draft"), Ws>>}

\* Elements of a list the client returns: strings, and None for a choice
\* whose message has no content.
Elements == {JStr(text) : text \in Texts} \cup {JNull}

\* What client.generate(prompt, n=k) can do: return a string, a list of any
\* length up to k + 1, something else, or raise.
BatchAnswers(k) ==
    {JStr(text) : text \in Texts} \cup {JArr(l) : l \in SeqsUpTo(Elements, k + 1)}
        \cup {JNull, Raises}

\* What client.generate(prompt, n=1) can do in the fallback loop.
SingleAnswers ==
    {JStr(text) : text \in Texts}
        \cup {JArr(<<>>), JArr(<<JStr(<<Ws, Ch("draft"), Ws>>)>>), JArr(<<JNull, JNull>>),
              JNull, Raises}

\* Lines 62-70: the results list made of what the client returned.
BatchList(result) ==
    CASE IsList(result) -> [k \in 1..Len(result.l) |-> JStr(Strip(result.l[k].s))]
      [] IsStr(result) -> <<JStr(Strip(result.s))>>
      [] OTHER -> <<JStr(Strip(PyStr(result)))>>

\* Lines 59-75 raise: the client raised, an element of its list has no strip
\* (AttributeError), or results[-1] is taken of an empty list (IndexError).
BatchRaises(result, k) ==
    \/ result = Raises
    \/ IsList(result) /\ \E m \in 1..Len(result.l) : ~IsStr(result.l[m])
    \/ IsList(result) /\ result.l = <<>> /\ k > 0

\* Fit without the padding of lines 73-75.
Fit_NoPadding(list, k) == IF Len(list) > k THEN SubSeq(list, 1, k) ELSE list

\* Lines 73-78, for a list that is not empty when it is too short: pad
\* with the last result, or cut to the first k.
Fit(list, k) ==
    IF Len(list) < k
    THEN list \o [m \in 1..(k - Len(list)) |-> list[Len(list)]]
    ELSE SubSeq(list, 1, k)

\* Line 90: the first element of a list, the placeholder for an empty one.
SingleText(text, idx) ==
    IF IsList(text)
    THEN IF text.l # <<>> THEN text.l[1]
         ELSE JStr(<<Ch("variant"), Ws, Ch(ToString(idx + 1))>>)
    ELSE text

\* Line 93: the placeholder of a failed single call.
FailedText == JStr(<<Ch("[generation failed]")>>)

\* Line 54-57: generate is called with n >= 1.
InitGenerate ==
    /\ ExtractorIdle
    /\ PostIdle
    /\ ToolIdle
    /\ gen_n \in 1..MaxN
    /\ gen_pc = "batch"
    /\ gen_results = <<>>
    /\ gen_i = 0
    /\ batch = [t |-> "none"]

\* Lines 59-80: the batch call gives something the try block gets through.
BatchReturns ==
    /\ gen_pc = "batch"
    /\ \E result \in BatchAnswers(gen_n) :
          /\ ~BatchRaises(result, gen_n)
          /\ batch' = result
          /\ gen_results' = Fit(BatchList(result), gen_n)
    /\ gen_pc' = "returned"
    /\ UNCHANGED <<gen_n, gen_i, extractor, postvars, toolvars>>

\* Lines 82-85: an exception in the try block starts the fallback loop.
BatchFails ==
    /\ gen_pc = "batch"
    /\ \E result \in BatchAnswers(gen_n) :
          /\ BatchRaises(result, gen_n)
          /\ batch' = result
    /\ gen_results' = <<>>
    /\ gen_i' = 0
    /\ gen_pc' = "fallback"
    /\ UNCHANGED <<gen_n, extractor, postvars, toolvars>>

\* Lines 86-91: one single call of the fallback loop that returns.
SingleReturns ==
    /\ gen_pc = "fallback"
    /\ gen_i < gen_n
    /\ \E text \in SingleAnswers \ {Raises} :
          gen_results' = Append(gen_results, JStr(Strip(PyStr(SingleText(text, gen_i)))))
    /\ gen_i' = gen_i + 1
    /\ UNCHANGED <<gen_n, gen_pc, batch, extractor, postvars, toolvars>>

\* Lines 92-93: one single call of the fallback loop that raises.
SingleFails ==
    /\ gen_pc = "fallback"
    /\ gen_i < gen_n
    /\ gen_results' = Append(gen_results, FailedText)
    /\ gen_i' = gen_i + 1
    /\ UNCHANGED <<gen_n, gen_pc, batch, extractor, postvars, toolvars>>

\* Line 94: the fallback loop is over.
FallbackReturns ==
    /\ gen_pc = "fallback"
    /\ gen_i >= gen_n
    /\ gen_pc' = "returned"
    /\ UNCHANGED <<gen_n, gen_results, gen_i, batch, extractor, postvars, toolvars>>

NextGenerate ==
    \/ BatchReturns
    \/ BatchFails
    \/ SingleReturns
    \/ SingleFails
    \/ FallbackReturns

\* The call runs on until it returns.
SpecGenerate == InitGenerate /\ [][NextGenerate]_vars /\ WF_vars(NextGenerate)

----------------------------------------------------------------------------
(* context/video_tool.py: main *)

\* Largest --number.
MaxNumber == 2

\* The words of a result that start with #.
Hashtags == {"#sale"}

IsHashtag(tok) == tok.k = "ch" /\ tok.c \in Hashtags

BlockHello == Block(S("0-10s"), S("T1"), S("Hello"), Absent)

BlockWorld == Block(S("10-20s"), Absent, Absent, S("World"))

\* What the client gives as one result: plain text, text with a hashtag,
\* JSON of the log's schema with one block and with two, JSON whose
\* script/caption is no list, other JSON, and the schema inside a fence.
ResultTexts ==
    { <<Ch("Hook")>>,
      <<Ws, Ch("Buy"), Ws, Ch("#sale"), Ws>>,
      <<Doc(ScriptCaption(<<BlockHello>>))>>,
      <<Doc(ScriptCaption(<<BlockHello, BlockWorld>>))>>,
      <<Doc(Obj(<< <<"script/caption", S("none")>> >>))>>,
      <<Doc(Obj(<< <<"note", JNum(1)>> >>))>>,
      <<Lit(JArr(<<JNum(1)>>))>>,
      FencedDoc(ScriptCaption(<<BlockHello>>)) }

\* Lines 75-82: the object when the text is JSON, a dict and has the key
\* script/caption; else None.
try_parse_result_as_schema(text) ==
    IF JsonLoads(text).ok /\ IsDict(JsonLoads(text).v) /\ Has(JsonLoads(text).v, "script/caption")
    THEN JsonLoads(text).v
    ELSE JNull

\* Line 100: the words of r that start with #.
TagsOf(r) == [k \in 1..Len(SelectSeq(r.s, IsHashtag)) |-> JStr(<<SelectSeq(r.s, IsHashtag)[k]>>)]

RECURSIVE Unique(_)
\* Line 109: list(dict.fromkeys(tags)): first occurrences, in order.
Unique(list) ==
    IF list = <<>> THEN <<>>
    ELSE LET front == Unique(SubSeq(list, 1, Len(list) - 1))
         IN  IF \E k \in 1..Len(front) : front[k] = list[Len(list)]
             THEN front
             ELSE Append(front, list[Len(list)])

\* Lines 103-107: the caption block of one result.
WrappedBlock(r) ==
    JObj(<< <<"time", S("0-60s")>>, <<"title", EmptyStr>>, <<"caption", r>> >>)

\* Lines 93-109: the body built of the results.
Wrapped(list) ==
    JObj(<< <<"script/caption", JArr([k \in 1..Len(list) |-> WrappedBlock(list[k])])>>,
            <<"title", S("a brief")>>,
            <<"tags", JArr(Unique(Flatten([k \in 1..Len(list) |-> TagsOf(list[k])])))>> >>)

\* Lines 84-109: a single result that parses to the schema is the body as
\* it stands.
Body(list) ==
    IF Len(list) = 1 /\ Truthy(try_parse_result_as_schema(list[1].s))
    THEN try_parse_result_as_schema(list[1].s)
    ELSE Wrapped(list)

\* Lines 111-120.
LogEntry(num, body) ==
    JObj(<< <<"timestamp", S("2024-01-01T00:00:00")>>,
            <<"brief", S("a brief")>>,
            <<"platform", S("short-video")>>,
            <<"format", S("script")>>,
            <<"tone", JNull>>,
            <<"length", JNull>>,
            <<"number", JNum(num)>>,
            <<"data", body>> >>)

\* Lines 37-64: main is started with --number in 0..MaxNumber.
InitTool ==
    /\ ExtractorIdle
    /\ PostIdle
    /\ GenIdle
    /\ number \in 0..MaxNumber
    /\ tool_pc = "generate"
    /\ generated = <<>>
    /\ appended = <<>>

\* Line 66 and generator.py 136-142: number results, each stripped.
ToolGenerates ==
    /\ tool_pc = "generate"
    /\ \E texts \in [1..number -> ResultTexts] :
          generated' = [k \in 1..number |-> JStr(Strip(texts[k]))]
    /\ tool_pc' = "log"
    /\ UNCHANGED <<number, appended, extractor, postvars, genvars>>

\* Lines 67-69: the client raises; main prints a hint and raises again.
ToolGenerateFails ==
    /\ tool_pc = "generate"
    /\ number >= 1
    /\ tool_pc' = "raised"
    /\ UNCHANGED <<number, generated, appended, extractor, postvars, genvars>>

\* Lines 84-128: the log entry is built and appended to the log file.
ToolAppends ==
    /\ tool_pc = "log"
    /\ appended' = Append(appended, LogEntry(number, Body(generated)))
    /\ tool_pc' = "output"
    /\ UNCHANGED <<number, generated, extractor, postvars, genvars>>

\* Lines 129-130: the log file cannot be written; a warning is printed.
ToolAppendFails ==
    /\ tool_pc = "log"
    /\ tool_pc' = "output"
    /\ UNCHANGED <<number, generated, appended, extractor, postvars, genvars>>

\* Lines 132-139: the results are saved to --out or printed.
ToolOutputs ==
    /\ tool_pc = "output"
    /\ tool_pc' = "done"
    /\ UNCHANGED <<number, generated, appended, extractor, postvars, genvars>>

NextTool ==
    \/ ToolGenerates
    \/ ToolGenerateFails
    \/ ToolAppends
    \/ ToolAppendFails
    \/ ToolOutputs

SpecTool == InitTool /\ [][NextTool]_vars

----------------------------------------------------------------------------
(* Properties *)

\* An exception escaped get_content_json: the run ended with a traceback.
Raised == pc \in {"extract_raised", "dedupe_raised"}

\* The loop over the entries has ended normally: all_items is complete.
Extracted == pc \in {"dedupe", "dedupe_raised", "export", "return", "done"}

\* Under SpecEntry: the one entry of the log has been extracted.
ExtractedOne == Extracted /\ Len(entries) = 1

TheEntry == entries[1]

TheTimestamp == Get(TheEntry, "timestamp")

TheBlocks == Get(Get(TheEntry, "data"), "script/caption").l

TheResults == Get(TheEntry, "results").l

\* What each strategy yields for a dict entry, nothing when the entry has
\* not the strategy's shape.
YieldA(e) ==
    IF ShapeA(e)
    THEN StrategyA(Get(e, "timestamp"), Get(Get(e, "data"), "script/caption"))
    ELSE Return(<<>>)

YieldB(e) ==
    IF ShapeB(e) THEN StrategyB(Get(e, "timestamp"), Get(e, "results")) ELSE Return(<<>>)

YieldC(e) == StrategyC(Get(e, "timestamp"), e)

FirstYielding(a, b, c) == IF a # <<>> THEN a ELSE IF b # <<>> THEN b ELSE c

\* C1: extract_from_entry returns the result of the first of Strategy A, B, C
\* that yields at least one record: an entry for which A yields nothing is
\* still processed by B, and one for which A and B yield nothing by C.
C1_FirstYieldingStrategy ==
    (/\ ExtractedOne
     /\ IsDict(TheEntry)
     /\ ~YieldA(TheEntry).raised
     /\ ~YieldC(TheEntry).raised)
    => all_items = FirstYielding(YieldA(TheEntry).out, YieldB(TheEntry).out, YieldC(TheEntry).out)

\* The entry without its field key.
IsNotResults(pair) == pair[1] # "results"

WithoutResults(e) == JObj(SelectSeq(e.kv, IsNotResults))

\* The entry holds a valid script/caption array yielding a record, and a
\* top-level results array.
BothShapes(e) ==
    /\ IsDict(e)
    /\ ShapeA(e)
    /\ IsList(Get(e, "results"))
    /\ ~YieldA(e).raised
    /\ YieldA(e).out # <<>>

\* C2: an entry with both a valid data["script/caption"] array yielding at
\* least one record and a results array gives exactly the Strategy A
\* records, the same as if it had no results field.
C2_StructuredBlocksWin ==
    (ExtractedOne /\ BothShapes(TheEntry))
    => /\ all_items = YieldA(TheEntry).out
       /\ all_items = extract_from_entry(WithoutResults(TheEntry)).out

C2_Witness ==
    /\ ExtractedOne
    /\ BothShapes(TheEntry)
    /\ Get(TheEntry, "results").l # <<>>
    /\ Len(all_items) >= 2

\* C3: whatever the lines of the log hold, the run never ends with an
\* exception.
C3_NeverRaises == ~Raised

\* A line that is neither blank, nor JSON, nor holds a fenced JSON document.
Malformed(line) ==
    /\ Strip(line) # <<>>
    /\ ~JsonLoads(line).ok
    /\ extract_fenced_json(Strip(line)) = JNull

WellFormed(line) == ~Malformed(line)

IsWarning(printed) == printed.kind = "warning"

RECURSIVE ExtractAll(_)
\* Lines 184-187 on a list of entries.
ExtractAll(es) ==
    IF es = <<>> THEN Return(<<>>)
    ELSE IF extract_from_entry(Head(es)).raised \/ ExtractAll(Tail(es)).raised
         THEN Raise
         ELSE Return(extract_from_entry(Head(es)).out \o ExtractAll(Tail(es)).out)

\* How a run on the given lines ends, and with which records.
Outcome(x) ==
    IF x.raised \/ \E n \in 1..Len(x.out) : ~KeyHashable(x.out[n])
    THEN [raised |-> TRUE, out |-> <<>>]
    ELSE [raised |-> FALSE, out |-> dedupe_and_flatten(x.out)]

RunOn(lines) == Outcome(ExtractAll(load_log_lines(lines)))

\* C4: with M malformed lines among the lines of the log, the run ends as it
\* ends on the log without them, with the same final records, and M
\* warnings are printed.
C4_MalformedLinesIgnored ==
    /\ pc \in {"export", "return", "done"}
          => RunOn(SelectSeq(log, WellFormed)) = [raised |-> FALSE, out |-> deduped]
    /\ Raised => RunOn(SelectSeq(log, WellFormed)).raised
    /\ pc \notin {"start", "load", "exit"}
          => Len(SelectSeq(stdout, IsWarning)) = Len(SelectSeq(log, Malformed))

\* A malformed line between two lines that give records.
C4_Witness ==
    /\ pc = "done"
    /\ Len(log) = 3
    /\ Malformed(log[2])
    /\ LoadLine(log[1]).entries # <<>>
    /\ LoadLine(log[3]).entries # <<>>
    /\ Len(entries) = 2
    /\ Len(deduped) >= 3
    /\ Len(SelectSeq(stdout, IsWarning)) = 1

\* The identity of a record for deduplication.
Triple(it) == <<it.timestamp, it.time, it.content>>

\* The positions of items that hold the first record of their triple.
FirstPositions(items) ==
    {i \in 1..Len(items) : \A j \in 1..(i - 1) : Triple(items[j]) # Triple(items[i])}

\* The n-th smallest member of a set of positions.
Nth(P, n) == CHOOSE i \in P : Cardinality({j \in P : j <= i}) = n

\* The records at the given positions, in order.
AtPositions(items, P) == [n \in 1..Cardinality(P) |-> items[Nth(P, n)]]

\* C5: the final output is the concatenation of the per-entry lists in log
\* order without the records whose triple occurred earlier: no triple twice,
\* survivors in their order, the first occurrence of each triple kept.
C5_FirstOccurrencesKept ==
    pc \in {"export", "return", "done"}
    => /\ all_items = ExtractAll(entries).out
       /\ \A i, j \in 1..Len(deduped) : Triple(deduped[i]) = Triple(deduped[j]) => i = j
       /\ deduped = AtPositions(all_items, FirstPositions(all_items))

\* Two entries gave a record of the same triple, and others.
C5_Witness ==
    /\ pc = "done"
    /\ Len(entries) >= 2
    /\ Len(deduped) >= 3
    /\ Len(deduped) < Len(all_items)
    /\ \E i \in 2..(Len(all_items) - 1) :
          /\ i \notin FirstPositions(all_items)
          /\ i + 1 \in FirstPositions(all_items)

\* The text of a block: its caption when it has one, else its content.
BlockText(b) == IF Has(b, "caption") THEN Get(b, "caption") ELSE Get(b, "content")

OptionalStr(b, key) == ~Has(b, key) \/ IsStr(Get(b, key))

\* The document embedded in a string value, JNull when there is none.
Embedded(v) == extract_fenced_json(Strip(v.s))

\* The string value embeds a document with a captions array.
HoldsCaptionsArray(v) ==
    IsStr(v) /\ IsDict(Embedded(v)) /\ IsList(Get(Embedded(v), "captions"))

\* A caption block as the data model describes it: optional time and title
\* strings and one string of text, caption or content, in which an embedded
\* document's captions, if any, is an array.
WellFormedBlock(b) ==
    /\ IsDict(b)
    /\ OptionalStr(b, "time")
    /\ OptionalStr(b, "title")
    /\ ~Has(b, "time_range")
    /\ Has(b, "caption") # Has(b, "content")
    /\ IsStr(BlockText(b))
    /\ (IsDict(Embedded(BlockText(b))) /\ Has(Embedded(BlockText(b)), "captions"))
          => IsList(Get(Embedded(BlockText(b)), "captions"))

PlainWellFormedBlock(b) == WellFormedBlock(b) /\ ~HoldsCaptionsArray(BlockText(b))

\* The record the claim gives block b.
PlainRecordOf(ts, b) ==
    [timestamp |-> ts,
     time |-> GetD(b, "time", EmptyStr),
     content |-> JStr(strip_code_fence(BlockText(b).s)),
     title |-> GetD(b, "title", EmptyStr)]

PlainEntry ==
    /\ ExtractedOne
    /\ IsDict(TheEntry)
    /\ ShapeA(TheEntry)
    /\ \A n \in 1..Len(TheBlocks) : PlainWellFormedBlock(TheBlocks[n])

\* C6: a well-formed Strategy-A entry with k caption blocks, none embedding a
\* captions array, gives exactly k records in block order, the i-th with the
\* entry's timestamp and the i-th block's time, title and fence-stripped
\* text.
C6_OneRecordPerPlainBlock ==
    PlainEntry
    => all_items = [n \in 1..Len(TheBlocks) |-> PlainRecordOf(TheTimestamp, TheBlocks[n])]

C6_Witness ==
    /\ PlainEntry
    /\ Len(TheBlocks) = MaxBlocks
    /\ Len(all_items) = MaxBlocks
    /\ Has(TheBlocks[1], "caption")
    /\ Has(TheBlocks[2], "content")
    /\ TheBlocks[1].kv # TheBlocks[2].kv
    /\ \E n \in 1..Len(TheBlocks) : Fence \in {BlockText(TheBlocks[n]).s[q] : q \in 1..Len(BlockText(TheBlocks[n]).s)}

\* Under SpecEntry: the entry has one well-formed block whose text embeds a
\* captions array of objects.
OneEmbeddingBlock ==
    /\ ExtractedOne
    /\ IsDict(TheEntry)
    /\ ShapeA(TheEntry)
    /\ Len(TheBlocks) = 1
    /\ WellFormedBlock(TheBlocks[1])
    /\ HoldsCaptionsArray(BlockText(TheBlocks[1]))
    /\ \A n \in 1..Len(Get(Embedded(BlockText(TheBlocks[1])), "captions").l) :
          IsDict(Get(Embedded(BlockText(TheBlocks[1])), "captions").l[n])

TheInnerItems == Get(Embedded(BlockText(TheBlocks[1])), "captions").l

\* C7: a block whose caption, or whose content, embeds a fenced document
\* with a captions array of m items gives m records, one per inner item in
\* item order.
C7_EmbeddedArrayUnpacked ==
    OneEmbeddingBlock
    => /\ Len(all_items) = Len(TheInnerItems)
       /\ \A n \in 1..Len(all_items) :
             all_items[n].content = GetD(TheInnerItems[n], "content",
                                         GetD(TheInnerItems[n], "caption", EmptyStr))

\* C8: the record of an unpacked inner item has the item's own time and
\* title when it has them, and the outer block's time (title) when the item
\* omits time (title).
C8_OuterTimeAndTitleInherited ==
    (OneEmbeddingBlock /\ Has(TheBlocks[1], "caption") /\ Len(all_items) = Len(TheInnerItems))
    => \A n \in 1..Len(all_items) :
          /\ all_items[n].time = GetD(TheInnerItems[n], "time", GetD(TheBlocks[1], "time", EmptyStr))
          /\ all_items[n].title = GetD(TheInnerItems[n], "title", GetD(TheBlocks[1], "title", EmptyStr))

RECURSIVE ShowsFence(_)
RECURSIVE ValueShowsFence(_)
\* The text, written out, holds a triple backtick.
ShowsFence(text) ==
    \E q \in 1..Len(text) :
        \/ text[q].k = "fence"
        \/ text[q].k \in {"doc", "lit", "repr"} /\ ValueShowsFence(text[q].v)

ValueShowsFence(v) ==
    CASE v.t = "str" -> ShowsFence(v.s)
      [] v.t = "arr" -> \E n \in 1..Len(v.l) : ValueShowsFence(v.l[n])
      [] v.t = "obj" -> \E n \in 1..Len(v.kv) : ValueShowsFence(v.kv[n][2])
      [] OTHER -> FALSE

\* C9: the content of every record extract_from_entry returns is free of
\* fence markup: it holds no triple backtick.
C9_ContentWithoutFence ==
    Extracted => \A n \in 1..Len(all_items) : ~ValueShowsFence(all_items[n].content)

\* Under SpecEntry: the entry went to Strategy B.
ResultsEntry ==
    /\ Len(entries) = 1
    /\ IsDict(TheEntry)
    /\ ~ShapeA(TheEntry)
    /\ ShapeB(TheEntry)

\* The document embedded in the string holds a script/caption or captions
\* array.
HoldsArray(d) ==
    IsDict(d) /\ (IsList(Get(d, "script/caption")) \/ IsList(Get(d, "captions")))

\* The number of items of each array the document holds.
ArrayLengths(d) ==
    {Len(Get(d, key).l) : key \in {k \in {"script/caption", "captions"} : IsList(Get(d, k))}}

PlainResult(ts, r) ==
    [timestamp |-> ts, time |-> EmptyStr, content |-> JStr(strip_code_fence(r.s)),
     title |-> EmptyStr]

\* C10 as claimed, for a results array of one string: as many records as
\* the embedded array, whichever of the two it is, has items; without an
\* embedded array the one plain record.
C10_OneRecordPerItem ==
    (ExtractedOne /\ ResultsEntry /\ Len(TheResults) = 1 /\ IsStr(TheResults[1]))
    => IF HoldsArray(Embedded(TheResults[1]))
       THEN Len(all_items) \in ArrayLengths(Embedded(TheResults[1]))
       ELSE all_items = <<PlainResult(TheTimestamp, TheResults[1])>>

\* The array Strategy B unpacks: script/caption unless that is missing or
\* falsy, then captions.
ChosenArray(d) ==
    IF Truthy(Get(d, "script/caption")) THEN Get(d, "script/caption") ELSE Get(d, "captions")

Unpacks(r) == Truthy(Embedded(r)) /\ IsList(ChosenArray(Embedded(r)))

ObjectItems(r) == SelectSeq(ChosenArray(Embedded(r)).l, IsDict)

ExpectedOfResult(ts, r) ==
    IF ~IsStr(r) THEN <<>>
    ELSE IF Unpacks(r)
         THEN [n \in 1..Len(ObjectItems(r)) |-> ItemRecord(ts, ObjectItems(r)[n])]
         ELSE <<PlainResult(ts, r)>>

\* C10 (amended): under Strategy B each string of results contributes, in
\* list order, one record per item that is an object of the array of its
\* embedded document (script/caption, or captions when script/caption is
\* missing or falsy) when a parseable, non-empty document with such an array
\* is found, and otherwise one record with empty time and title whose
\* content is the whole fence-stripped string; other elements contribute
\* nothing, and nothing raises.
C10_ResultStrings ==
    ResultsEntry
    => /\ pc # "extract_raised"
       /\ Extracted
            => all_items = Flatten([n \in 1..Len(TheResults) |->
                                      ExpectedOfResult(TheTimestamp, TheResults[n])])

C10_Witness ==
    /\ ExtractedOne
    /\ ResultsEntry
    /\ Len(TheResults) = 2
    /\ IsStr(TheResults[1]) /\ IsStr(TheResults[2])
    /\ FenceSearch(TheResults[1].s).found /\ ~FenceSearch(TheResults[1].s).ok
    /\ Unpacks(TheResults[2]) /\ Len(ObjectItems(TheResults[2])) = 2
    /\ Len(all_items) = 3

\* The timestamp field of an entry as Entry takes it.
TsField(e) == IF Has(e, "timestamp") THEN Get(e, "timestamp") ELSE Absent

\* The entries that hand the same text to each strategy: as the caption of
\* the one block, as the one string of results, as the field brief.
ViaBlock(ts, text) ==
    Entry(ts, ScriptCaption(<<Obj(<< <<"caption", JStr(text)>> >>)>>), Absent, Absent)

ViaResults(ts, text) == Entry(ts, Absent, JArr(<<JStr(text)>>), Absent)

ViaField(ts, text) == Entry(ts, Absent, Absent, JStr(text))

\* The document holds a captions array of one item and no script/caption.
OneItemCaptions(d) ==
    /\ IsDict(d)
    /\ ~Has(d, "script/caption")
    /\ IsList(Get(d, "captions"))
    /\ Len(Get(d, "captions").l) = 1

\* Under SpecEntry: the entry is a results array of one string that embeds a
\* captions array of one item, and extract_from_entry has ended.
OneItemResult ==
    /\ Len(entries) = 1
    /\ Extracted \/ pc = "extract_raised"
    /\ ResultsEntry
    /\ Len(TheResults) = 1
    /\ IsStr(TheResults[1])
    /\ TheEntry = ViaResults(TsField(TheEntry), TheResults[1].s)
    /\ OneItemCaptions(Embedded(TheResults[1]))

TheItem == Get(Embedded(TheResults[1]), "captions").l[1]

\* How extract_from_entry ended on the one entry.
Ended == [raised |-> pc = "extract_raised", out |-> all_items]

\* C11: an item of an embedded array is unpacked by the same rules by Strategy
\* A, B and C: the same text handed to each of them gives the same outcome
\* (a record, nothing, or an exception) and the same time, title and content.
C11_SameFieldRules ==
    OneItemResult
    => /\ extract_from_entry(ViaBlock(TsField(TheEntry), TheResults[1].s)) = Ended
       /\ extract_from_entry(ViaField(TsField(TheEntry), TheResults[1].s)) = Ended

\* Under SpecEntry: the entry matches neither Strategy A nor Strategy B, and
\* extract_from_entry has ended.
FallbackEntry ==
    /\ Len(entries) = 1
    /\ Extracted \/ pc = "extract_raised"
    /\ IsDict(TheEntry)
    /\ ~ShapeA(TheEntry)
    /\ ~ShapeB(TheEntry)

\* The values of the entry's fields, in field order.
FieldValues(e) == [n \in 1..Len(e.kv) |-> e.kv[n][2]]

\* The field embeds a document with a script/caption or captions array.
HoldsDocument(v) == IsStr(v) /\ HoldsArray(Embedded(v))

\* How many records the claim gives a field: one per item of the array its
\* document holds (of either, when it holds both).
FieldCounts(v) == IF HoldsDocument(v) THEN ArrayLengths(Embedded(v)) ELSE {0}

RECURSIVE CountSums(_)
CountSums(vals) ==
    IF vals = <<>> THEN {0}
    ELSE {a + b : a \in FieldCounts(Head(vals)), b \in CountSums(Tail(vals))}

\* The records of a field whose array holds objects only.
ExpectedOfField(ts, v) ==
    IF HoldsDocument(v) /\ IsList(ChosenArray(Embedded(v)))
    THEN [n \in 1..Len(ObjectItems(v)) |-> ItemRecord(ts, ObjectItems(v)[n])]
    ELSE <<>>

\* Every item of the arrays embedded in the entry's fields is an object.
ObjectsOnly(e) ==
    \A n \in 1..Len(e.kv) :
        HoldsDocument(e.kv[n][2])
        => \A key \in {"script/caption", "captions"} :
              IsList(Get(Embedded(e.kv[n][2]), key))
              => \A m \in 1..Len(Get(Embedded(e.kv[n][2]), key).l) :
                    IsDict(Get(Embedded(e.kv[n][2]), key).l[m])

\* C12: for an entry that matches neither Strategy A nor Strategy B, Strategy
\* C gives one record per item of the array of each document embedded in a
\* string-valued top-level field, in field order, and never raises; without
\* such a document the entry gives no record.
C12_FallbackScan ==
    FallbackEntry
    => /\ pc # "extract_raised"
       /\ Len(all_items) \in CountSums(FieldValues(TheEntry))
       /\ ObjectsOnly(TheEntry)
            => all_items = Flatten([n \in 1..Len(TheEntry.kv) |->
                                      ExpectedOfField(TheTimestamp, TheEntry.kv[n][2])])

\* The positions of the line where a fence, an optional json tag and
\* whitespace are followed by a JSON object, whitespace and a fence.
FencedDocsAt(s) ==
    {i \in 1..Len(s) :
        /\ s[i].k = "fence"
        /\ GroupStart(s, i) <= Len(s)
        /\ s[GroupStart(s, i)].k = "doc"
        /\ CloserAt(s, GroupStart(s, i))}

\* The first fenced JSON document the line holds.
FirstFencedDoc(s) ==
    s[GroupStart(s, CHOOSE i \in FencedDocsAt(s) : \A j \in FencedDocsAt(s) : i <= j)].v

\* What the claim gives a physical line: blank, nothing; JSON, its value; not
\* JSON but holding a fenced JSON document, that document; else a warning.
ClaimedLine(line) ==
    IF Strip(line) = <<>> THEN [entries |-> <<>>, warned |-> FALSE]
    ELSE IF JsonLoads(line).ok THEN [entries |-> <<JsonLoads(line).v>>, warned |-> FALSE]
    ELSE IF FencedDocsAt(line) # {} THEN [entries |-> <<FirstFencedDoc(line)>>, warned |-> FALSE]
    ELSE [entries |-> <<>>, warned |-> TRUE]

\* The line numbers the warnings on standard output name, in print order.
WarnedLines == [n \in 1..Len(SelectSeq(stdout, IsWarning)) |-> SelectSeq(stdout, IsWarning)[n].line]

\* The numbers 1..k, in order, of the lines the claim has warned about.
RECURSIVE ClaimedWarnings(_)
ClaimedWarnings(k) ==
    IF k = 0 THEN <<>>
    ELSE ClaimedWarnings(k - 1) \o (IF ClaimedLine(log[k]).warned THEN <<k>> ELSE <<>>)

\* C13: load_log_lines treats every physical line in one way: blank, nothing;
\* valid JSON, one entry; not JSON but holding a parseable fenced JSON
\* document, one entry equal to that document and no warning; any other line
\* no entry and one warning naming its 1-based number; entries are in file
\* order and reading goes on after a warning.
C13_EveryLineOneWay ==
    pc = "load"
    => /\ entries = Flatten([n \in 1..(lineno - 1) |-> ClaimedLine(log[n]).entries])
       /\ WarnedLines = ClaimedWarnings(lineno - 1)

\* What was printed is, taken alone, the text of one JSON document: the
\* JSON rendering, or the repr of an empty list, which reads [].
IsJsonText(printed) ==
    \/ printed.kind = "json"
    \/ printed.kind = "repr" /\ printed.items = <<>>

\* synthesize.run_extractor_and_load: json.loads of the whole standard
\* output of the extractor; text after the first document, or before it,
\* raises JSONDecodeError.
run_extractor_and_load(out) ==
    IF Len(out) = 1 /\ IsJsonText(out[1])
    THEN [ok |-> TRUE, v |-> out[1].items]
    ELSE [ok |-> FALSE, v |-> <<>>]

\* C14: run without --out, the extractor writes to standard output the JSON
\* rendering of the final records and nothing else, so json.loads of the
\* whole output gives the final records, malformed lines in the log or not.
C14_StdoutIsTheJson ==
    (pc = "done" /\ ~argv.out)
    => /\ stdout = <<[kind |-> "json", items |-> deduped]>>
       /\ run_extractor_and_load(stdout) = [ok |-> TRUE, v |-> deduped]

\* C15: every record of the final output has non-empty content.
C15_ContentNonEmpty ==
    pc \in {"export", "return", "done"}
    => \A n \in 1..Len(deduped) : deduped[n].content # EmptyStr

RECURSIVE Pow2(_)
Pow2(k) == IF k = 0 THEN 1 ELSE 2 * Pow2(k - 1)

\* _post has returned or raised.
PostEnded == post_pc \in {"returned", "raised_request", "raised_value", "raised_runtime"}

\* The attempts that were rate-limited or failed.
Unanswered == {k \in 1..Len(answers) : answers[k] # "ok"}

PostSafe ==
    /\ Len(answers) <= max_retries
    /\ post_pc = "returned"
         => /\ answers[Len(answers)] = "ok"
            /\ \A k \in 1..(Len(answers) - 1) : answers[k] # "ok"
    /\ post_pc = "raised_request"
         => /\ Len(answers) = max_retries
            /\ answers[Len(answers)] \in Failing \cup {"bad_body"}
    /\ (PostEnded /\ answers # <<>> /\ answers[Len(answers)] \in Failing)
         => post_pc = "raised_request" /\ Len(answers) = max_retries
    /\ (PostEnded /\ \A k \in 1..Len(answers) : answers[k] = "rate_limited")
         => post_pc = "raised_runtime" /\ Len(answers) = max_retries
    /\ slept = [k \in 1..Len(slept) |-> Pow2(k - 1)]
    /\ Len(slept) = IF post_pc \in {"raised_request", "raised_value"}
                    THEN Len(answers) - 1
                    ELSE Cardinality(Unanswered)

\* C16: _post ends after at most max_retries POSTs: it returns the JSON of
\* the first attempt that is neither rate-limited nor failing, raises the
\* request exception again when the last attempt fails, raises RuntimeError
\* when every attempt is answered 429, and the waits slept after the
\* rate-limited and failed attempts are 1, 2, 4, ... seconds.
C16_PostTerminates == []PostSafe /\ <>PostEnded

\* A rate-limited and a failed attempt, then an answer.
C16_Witness ==
    /\ post_pc = "returned"
    /\ max_retries = 3
    /\ answers = <<"rate_limited", "http_error", "ok">>
    /\ slept = <<1, 2>>

\* The client gave the batch call a list of strings.
ListOfStrings(result) == IsList(result) /\ \A m \in 1..Len(result.l) : IsStr(result.l[m])

\* What the claim gives for a batch answer the try block gets through: a
\* single string, or the strings of a list, stripped, the last repeated up
\* to n, or the first n.
ClaimedResults(result, k) ==
    [m \in 1..k |->
        IF IsList(result)
        THEN JStr(Strip(result.l[IF m <= Len(result.l) THEN m ELSE Len(result.l)].s))
        ELSE JStr(Strip(PyStr(result)))]

GenerateSafe ==
    gen_pc = "returned"
    => /\ Len(gen_results) = gen_n
       /\ \A m \in 1..Len(gen_results) : IsStr(gen_results[m])
       /\ (IsStr(batch) \/ (ListOfStrings(batch) /\ batch.l # <<>>))
            => gen_results = ClaimedResults(batch, gen_n)
       /\ (batch = Raises \/ batch = JArr(<<>>)) => gen_i = gen_n

\* C17: generate returns a list of exactly n strings for every n >= 1,
\* whatever the client does: a single string, a shorter list (padded with
\* its last result), a longer list (cut to n), an empty list or an exception
\* (n single calls, a placeholder for each that fails).
C17_ExactlyNStrings == []GenerateSafe /\ <>(gen_pc = "returned")

\* The batch call gave an empty list; of the two single calls one gave an
\* empty list and one raised.
C17_Witness ==
    /\ gen_pc = "returned"
    /\ gen_n = 2
    /\ batch = JArr(<<>>)
    /\ gen_results = <<JStr(<<Ch("variant"), Ws, Ch("1")>>), FailedText>>

\* The entry's data is an object whose script/caption is a list of as many
\* blocks as results were generated, and extract_from_entry takes the
\* entry by Strategy A.
BlockPerResult(e) ==
    /\ IsDict(Get(e, "data"))
    /\ IsList(Get(Get(e, "data"), "script/caption"))
    /\ Len(Get(Get(e, "data"), "script/caption").l) = Len(generated)
    /\ ShapeA(e)

\* C18: every log entry main appends has a data object whose script/caption
\* is a list with one caption block per generated result, so that the
\* extractor resolves it by Strategy A, whether the body was built of the
\* results or is a single result taken as it stands.
C18_LoggedEntriesAreStructured ==
    \A k \in 1..Len(appended) : BlockPerResult(appended[k])

====
